---------------------------- MODULE Spec2Model ----------------------------
(***************************************************************************)
(* Model of src/main.py: the Streamlit script that loads a passenger CSV   *)
(* (load_data), normalizes its columns, imputes and coerces the three      *)
(* analysed columns, and prints two survival-rate summaries.               *)
(*                                                                         *)
(* A string of the program is a sequence of one-character strings.  A cell *)
(* of a table is NaN, a number or a text.  Ages are held in half-years, so *)
(* that the median of an even number of whole-year ages is exact; every    *)
(* other number is held as it is.                                          *)
(***************************************************************************)
EXTENDS Integers, Sequences, FiniteSets, TLC

VARIABLES
    exists,       \* whether FILE_PATH names a file
    pc,           \* the script's position
    enc,          \* index in ENCODINGS of the outer loop
    delim,        \* index in DELIMITERS of the inner loop
    df,           \* load_data's local df
    loaded,       \* df as the search left it, when line 69 let it through
    calls,        \* the (encoding, delimiter) pairs handed to pd.read_csv so far
    last,         \* what the latest pd.read_csv call did
    accepted,     \* the pairs st.success reported (line 54), in order
    err,          \* the st.error report of load_data, if any
    raised,       \* the exception that escaped the script, if any
    data,         \* load_data's return value
    pclass_survival,
    age_survival

vars == <<exists, pc, enc, delim, df, loaded, calls, last, accepted, err, raised,
          data, pclass_survival, age_survival>>

-----------------------------------------------------------------------------
(* Bounds of the model.                                                    *)

\* Most data rows of a table whose class and survived cells vary.
MaxRows == 2

\* Most data rows of a table whose age cells vary.
MaxAgeRows == 4

-----------------------------------------------------------------------------
(* Strings.                                                                *)

BOM_ARTIFACT == <<"ï", "»", "¿">>

Whitespace == {" ", "\t"}

\* <<lower, upper>> of every cased character the model's names use.
CasePairs ==
    { <<"a", "A">>, <<"c", "C">>, <<"d", "D">>, <<"e", "E">>, <<"g", "G">>,
      <<"i", "I">>, <<"l", "L">>, <<"p", "P">>, <<"r", "R">>, <<"s", "S">>,
      <<"u", "U">>, <<"v", "V">>, <<"f", "F">>, <<"ï", "Ï">> }

CharLower(ch) ==
    IF \E pr \in CasePairs : pr[2] = ch
    THEN (CHOOSE pr \in CasePairs : pr[2] = ch)[1]
    ELSE ch

CharUpper(ch) ==
    IF \E pr \in CasePairs : pr[1] = ch
    THEN (CHOOSE pr \in CasePairs : pr[1] = ch)[2]
    ELSE ch

\* str.lower()
StrLower(s) == [i \in 1..Len(s) |-> CharLower(s[i])]

\* str.upper(), used to build header variants only
StrUpper(s) == [i \in 1..Len(s) |-> CharUpper(s[i])]

RECURSIVE LStrip(_)
LStrip(s) ==
    IF s # <<>> /\ Head(s) \in Whitespace THEN LStrip(Tail(s)) ELSE s

RECURSIVE RStrip(_)
RStrip(s) ==
    IF s # <<>> /\ s[Len(s)] \in Whitespace
    THEN RStrip(SubSeq(s, 1, Len(s) - 1))
    ELSE s

\* str.strip()
StrStrip(s) == RStrip(LStrip(s))

StartsWith(s, old) ==
    Len(s) >= Len(old) /\ SubSeq(s, 1, Len(old)) = old

\* str.replace(old, new): every non-overlapping occurrence, left to right
RECURSIVE StrReplace(_, _, _)
StrReplace(s, old, new) ==
    IF s = <<>> THEN <<>>
    ELSE IF StartsWith(s, old)
         THEN new \o StrReplace(SubSeq(s, Len(old) + 1, Len(s)), old, new)
         ELSE <<Head(s)>> \o StrReplace(Tail(s), old, new)

\* Lines 77 and 80 applied to one column name.
NormalizeNameNoBom(name) == StrLower(StrStrip(name))

NormalizeName(name) == StrLower(StrStrip(StrReplace(name, BOM_ARTIFACT, <<>>)))

\* Lines 77-80: df.columns after the two assignments.
NormalizeColumns(columns) ==
    [i \in 1..Len(columns) |-> NormalizeName(columns[i])]

pclass == <<"p", "c", "l", "a", "s", "s">>
survived == <<"s", "u", "r", "v", "i", "v", "e", "d">>
age == <<"a", "g", "e">>
Pclass == <<"P", "c", "l", "a", "s", "s">>
Survived == <<"S", "u", "r", "v", "i", "v", "e", "d">>
Age == <<"A", "g", "e">>
AgeGroupName == <<"A", "g", "e", "G", "r", "o", "u", "p">>

\* required_cols (line 83), in the dictionary's order
required_cols == << <<pclass, Pclass>>, <<survived, Survived>>, <<age, Age>> >>

InSeq(x, s) == \E i \in 1..Len(s) : s[i] = x

IndexOf(x, s) == CHOOSE i \in 1..Len(s) : s[i] = x


-----------------------------------------------------------------------------
(* Tables.                                                                 *)

None == [kind |-> "None"]

NaN == [kind |-> "nan", val |-> 0]
Num(v) == [kind |-> "num", val |-> v]
Text == [kind |-> "str", val |-> 0]
Cat(i) == [kind |-> "cat", val |-> i]

\* An age of k whole years, in half-years.
Years(k) == 2 * k

DataFrame(columns, rows) ==
    [kind |-> "DataFrame", columns |-> columns, rows |-> rows]

\* df.shape[0], df.shape[1], df.empty
NRows(t) == Len(t.rows)
NCols(t) == Len(t.columns)
Empty(t) == NRows(t) = 0 \/ NCols(t) = 0

\* df[name]: the cells of the column called name
Column(t, name) ==
    [r \in 1..NRows(t) |-> t.rows[r][IndexOf(name, t.columns)]]

\* df[name] = cells
SetColumn(t, name, cells) ==
    [t EXCEPT !.rows =
        [r \in 1..NRows(t) |->
            [t.rows[r] EXCEPT ![IndexOf(name, t.columns)] = cells[r]]]]

-----------------------------------------------------------------------------
(* The files the model reads: what pd.read_csv can make of one under one   *)
(* (encoding, delimiter) pair.                                             *)

ENCODINGS == <<"cp1252", "latin-1", "utf-8">>
DELIMITERS == <<",", ";", "\t">>

\* The column count a table needs to be accepted (lines 53 and 66).
MinColumns == 10

Digits == <<"0", "1", "2", "3", "4", "5", "6", "7", "8", "9">>

\* The i-th column the analysis does not read.
Filler(i) == <<"f", Digits[(i \div 10) + 1], Digits[(i % 10) + 1]>>

\* A header of the given width that starts with names.
Header(names, width) ==
    names \o [i \in 1..(width - Len(names)) |-> Filler(i)]

\* A row of the given width that starts with cells.
Row(cells, width) ==
    cells \o [i \in 1..(width - Len(cells)) |-> Text]

Table(names, cellrows, width) ==
    DataFrame(Header(names, width),
              [r \in 1..Len(cellrows) |-> Row(cellrows[r], width)])

\* Spellings of a required column in a header.
Padded(name) == <<" ">> \o name \o <<" ">>
Capitalized(name) == <<CharUpper(Head(name))>> \o Tail(name)
WithBom(name) == BOM_ARTIFACT \o name

Spellings(name) ==
    { name, Capitalized(name), StrUpper(name), Padded(Capitalized(name)),
      <<"\t">> \o name, WithBom(name), WithBom(Padded(Capitalized(name))),
      Padded(WithBom(StrUpper(name))) }

\* Names that are no spelling of pclass.
Misspellings == { <<"c", "l", "a", "s", "s">>, <<"p", " ", "c", "l", "a", "s", "s">> }

Absent == <<>>

PclassNames == Spellings(pclass) \cup Misspellings \cup {Absent}
SurvivedNames == {survived, Padded(Survived), Absent}
AgeNames == {age, WithBom(StrUpper(age)), Absent}

Present(names) == SelectSeq(names, LAMBDA n : n # Absent)

OneRow == << <<Num(1), Num(1), Num(Years(22))>> >>

\* Tables whose header varies: one data row, MinColumns columns.
HeaderTables ==
    { Table(Present(<<p, s, a>>), OneRow, MinColumns) :
        p \in PclassNames, s \in SurvivedNames, a \in AgeNames }

SeqsUpTo(S, n) == UNION { [1..k -> S] : k \in 1..n }

\* <<class cell, survived cell>> of a row: in range, absent, out of range,
\* not a number.
ClassCells ==
    { <<Num(1), Num(1)>>, <<Num(1), Num(0)>>, <<NaN, Num(1)>>, <<Num(1), NaN>>,
      <<Num(5), Num(1)>>, <<Num(1), Num(2)>>, <<Text, Num(0)>>, <<Num(1), Text>> }

\* Tables whose class and survived cells vary.
ClassTables ==
    { Table(<<pclass, survived, age>>,
            [r \in 1..Len(cs) |-> <<cs[r][1], cs[r][2], Num(Years(30))>>],
            MinColumns) :
        cs \in SeqsUpTo(ClassCells, MaxRows) }

BucketCells ==
    { Num(Years(0)), Num(Years(12)), Num(Years(60)), Num(Years(100)),
      Num(Years(-1)), Text }

\* Tables whose age and survived cells vary over the age groups.
BucketTables ==
    { Table(<<Pclass, Survived, Age>>,
            [r \in 1..Len(cs) |-> <<Num(3), cs[r][2], cs[r][1]>>],
            MinColumns + 1) :
        cs \in SeqsUpTo(BucketCells \X {Num(0), Num(1)}, MaxRows) }

MedianCells == {NaN, Num(Years(20)), Num(Years(40))}

\* Tables whose age cells vary between absent and present.
MedianTables ==
    { Table(<<pclass, survived, age>>,
            [r \in 1..Len(cs) |-> <<Num(1), Num(1), cs[r]>>],
            MinColumns) :
        cs \in SeqsUpTo(MedianCells, MaxAgeRows) }

\* Tables line 53 turns down: too few columns, or no data row.
RejectedTables ==
    { Table(<<pclass, survived, age>>, OneRow, MinColumns - 1),
      Table(<<pclass, survived, age>>, << <<Num(4), Text, NaN>> >>, 3),
      Table(<<survived, age>>, << <<Num(1), Num(Years(22))>> >>, MinColumns - 1),
      Table(<<>>, << <<>> >>, 1),
      Table(<<pclass, survived, age>>, <<>>, MinColumns),
      Table(<<>>, <<>>, 1) }

Tables ==
    HeaderTables \cup ClassTables \cup BucketTables \cup MedianTables
        \cup RejectedTables

Raise(exc) == [kind |-> "raise", exc |-> exc]

\* What pd.read_csv can raise when the file is there: latin-1 decodes every
\* byte, and EmptyDataError is one of the errors line 63 catches.
ReadErrors(encoding) ==
    (IF encoding = "latin-1" THEN {} ELSE {"UnicodeDecodeError"})
        \cup {"ParserError", "EmptyDataError"}

\* What pd.read_csv(file_path, encoding=..., sep=..., engine='python') can do.
read_csv(file_exists, encoding) ==
    IF file_exists
    THEN Tables \cup { Raise(e) : e \in ReadErrors(encoding) }
    ELSE { Raise("FileNotFoundError") }


-----------------------------------------------------------------------------
(* load_data: the search for a readable table (lines 44-67).               *)

\* Line 53: df.shape[1] >= 10 and not df.empty
LoadAccepts(t) == NCols(t) >= MinColumns /\ ~Empty(t)

\* Line 66: df is not None and df.shape[1] >= 10 and not df.empty
OuterBreakNever(d) == FALSE

OuterBreak(d) == d # None /\ NCols(d) >= MinColumns /\ ~Empty(d)

\* Lines 57-65: what the except clauses do with an exception of read_csv.
HandlerContinues(exc) == "continue"

Handler(exc) ==
    CASE exc \in {"UnicodeDecodeError", "ParserError"} -> "continue"
      [] exc = "FileNotFoundError" -> "return"
      [] OTHER -> "continue"

Init ==
    /\ exists \in BOOLEAN
    /\ pc = "search"
    /\ enc = 1
    /\ delim = 1
    /\ df = None
    /\ loaded = None
    /\ calls = <<>>
    /\ last = None
    /\ accepted = <<>>
    /\ err = None
    /\ raised = "none"
    /\ data = None
    /\ pclass_survival = <<>>
    /\ age_survival = <<>>

\* One pass of the inner loop's body (lines 49-65), with the loop control
\* that follows it (the break of line 56, lines 66-67, the loops' ends).
TryHypothesis ==
    /\ pc = "search"
    /\ \E outcome \in read_csv(exists, ENCODINGS[enc]) :
        LET hyp == <<ENCODINGS[enc], DELIMITERS[delim]>>
            parsed == outcome.kind = "DataFrame"
            df1 == IF parsed THEN outcome ELSE df
            step == IF parsed
                    THEN (IF LoadAccepts(outcome) THEN "break" ELSE "next")
                    ELSE Handler(outcome.exc)
            innerOver == step = "break" \/ delim = Len(DELIMITERS)
            outerOver == OuterBreak(df1) \/ enc = Len(ENCODINGS)
        IN  /\ calls' = Append(calls, hyp)
            /\ last' = [hyp |-> hyp, outcome |-> outcome]
            /\ df' = df1
            /\ accepted' = IF step = "break" THEN Append(accepted, hyp)
                           ELSE accepted
            /\ IF step = "return"
               THEN /\ err' = [kind |-> "NotFound"]
                    /\ pc' = "main"
                    /\ UNCHANGED <<enc, delim>>
               ELSE /\ err' = err
                    /\ pc' = IF innerOver /\ outerOver THEN "loaded" ELSE "search"
                    /\ enc' = IF innerOver /\ ~outerOver THEN enc + 1 ELSE enc
                    /\ delim' = IF innerOver
                                THEN (IF outerOver THEN delim ELSE 1)
                                ELSE delim + 1
    /\ UNCHANGED <<exists, loaded, raised, data, pclass_survival, age_survival>>

\* Lines 69-71.
LoadFailed(d) == d = None \/ Empty(d)

CheckLoaded ==
    /\ pc = "loaded"
    /\ IF LoadFailed(df)
       THEN /\ err' = [kind |-> "DecodeExhausted"]
            /\ pc' = "main"
            /\ UNCHANGED loaded
       ELSE /\ err' = err
            /\ pc' = "normalize"
            /\ loaded' = df
    /\ UNCHANGED <<exists, enc, delim, df, calls, last, accepted, raised, data,
                   pclass_survival, age_survival>>

-----------------------------------------------------------------------------
(* load_data: column normalization and schema matching (lines 77-101).     *)

\* Lines 88-92: the required names df.columns lacks, in required_cols' order.
MissingColsFirstOnly(columns) ==
    LET lower == [i \in 1..Len(required_cols) |-> required_cols[i][1]]
        all == SelectSeq(lower, LAMBDA n : ~InSeq(n, columns))
    IN  IF all = <<>> THEN <<>> ELSE <<Head(all)>>

MissingCols(columns) ==
    LET lower == [i \in 1..Len(required_cols) |-> required_cols[i][1]]
    IN  SelectSeq(lower, LAMBDA n : ~InSeq(n, columns))

NormalizeAndMatch ==
    /\ pc = "normalize"
    /\ LET columns == NormalizeColumns(df.columns)
           missing_cols == MissingCols(columns)
       IN  /\ df' = [df EXCEPT !.columns = columns]
           /\ IF missing_cols # <<>>
              THEN /\ err' = [kind |-> "MissingColumns",
                              missing |-> missing_cols,
                              present |-> columns]
                   /\ pc' = "main"
              ELSE /\ err' = err
                   /\ pc' = "coerce"
    /\ UNCHANGED <<exists, enc, delim, loaded, calls, last, accepted, raised,
                   data, pclass_survival, age_survival>>

-----------------------------------------------------------------------------
(* load_data: renaming, imputation and coercion (lines 104-109).           *)

\* Line 104: df.rename(columns=rename_map) with every required name mapped.
Rename(columns) ==
    [i \in 1..Len(columns) |->
        IF \E k \in 1..Len(required_cols) : required_cols[k][1] = columns[i]
        THEN required_cols[CHOOSE k \in 1..Len(required_cols) :
                               required_cols[k][1] = columns[i]][2]
        ELSE columns[i]]

RECURSIVE Insert(_, _)
Insert(x, s) ==
    IF s = <<>> THEN <<x>>
    ELSE IF x <= Head(s) THEN <<x>> \o s
         ELSE <<Head(s)>> \o Insert(x, Tail(s))

\* The numbers of s in ascending order.
RECURSIVE Ascending(_)
Ascending(s) == IF s = <<>> THEN <<>> ELSE Insert(Head(s), Ascending(Tail(s)))

HasText(cells) == \E i \in 1..Len(cells) : cells[i].kind = "str"

\* The numbers among cells, NaN skipped.
Values(cells) ==
    LET nums == SelectSeq(cells, LAMBDA c : c.kind = "num")
    IN  [i \in 1..Len(nums) |-> nums[i].val]

\* Series.median(): NaN skipped; NaN when nothing is left.
MedianLower(cells) ==
    LET v == Ascending(Values(cells))
        n == Len(v)
    IN  IF n = 0 THEN NaN ELSE Num(v[(n + 1) \div 2])

Median(cells) ==
    LET v == Ascending(Values(cells))
        n == Len(v)
    IN  IF n = 0 THEN NaN
        ELSE IF n % 2 = 1 THEN Num(v[(n + 1) \div 2])
             ELSE Num((v[n \div 2] + v[(n \div 2) + 1]) \div 2)

\* Series.fillna(value)
FillNa(cells, value) ==
    [i \in 1..Len(cells) |-> IF cells[i].kind = "nan" THEN value ELSE cells[i]]

\* Lines 104-109: the table load_data returns, or the exception that leaves it.
Preprocess(d) ==
    LET t == [d EXCEPT !.columns = Rename(d.columns)]
        ages == Column(t, Age)
        survs == Column(t, Survived)
        classes == Column(t, Pclass)
    IN  IF HasText(ages) THEN Raise("TypeError")
        ELSE IF HasText(survs) \/ HasText(classes) THEN Raise("ValueError")
        ELSE SetColumn(
                 SetColumn(
                     SetColumn(t, Age, FillNa(ages, Median(ages))),
                     Survived, FillNa(survs, Num(0))),
                 Pclass, FillNa(classes, Num(3)))

Coerce ==
    /\ pc = "coerce"
    /\ LET r == Preprocess(df)
       IN  IF r.kind = "raise"
           THEN /\ raised' = r.exc
                /\ pc' = "crashed"
                /\ UNCHANGED <<df, data>>
           ELSE /\ df' = r
                /\ data' = r
                /\ pc' = "main"
                /\ UNCHANGED raised
    /\ UNCHANGED <<exists, enc, delim, loaded, calls, last, accepted, err,
                   pclass_survival, age_survival>>

-----------------------------------------------------------------------------
(* The script after load_data (lines 112-156).                             *)

\* Line 114.
Main ==
    /\ pc = "main"
    /\ pc' = IF data # None THEN "pclass" ELSE "done"
    /\ UNCHANGED <<exists, enc, delim, df, loaded, calls, last, accepted, err, raised,
                   data, pclass_survival, age_survival>>

\* The keys of a groupby, ascending (sort=True), NaN dropped (dropna=True).
GroupKeys(cells) ==
    LET keys == { cells[i].val : i \in { j \in 1..Len(cells) : cells[j].kind # "nan" } }
    IN  CHOOSE s \in [1..Cardinality(keys) -> keys] :
            /\ \A i, j \in 1..Cardinality(keys) : i < j => s[i] < s[j]

RECURSIVE SumSeq(_)
SumSeq(s) == IF s = <<>> THEN 0 ELSE Head(s) + SumSeq(Tail(s))

\* (survivors / total) * 100, held as the fraction it is.
Percent(survivors, total) == [num |-> survivors * 100, den |-> total]

\* groupby(by)[Survived].agg(['sum', 'count']) with the rate column added
\* (lines 122-124 and 143-145).
Summary(t, by) ==
    LET keys == GroupKeys(Column(t, by))
        bycol == Column(t, by)
        surv == Column(t, Survived)
        members(k) == { i \in 1..NRows(t) :
                          bycol[i].kind # "nan" /\ bycol[i].val = keys[k] }
        inGroup(k) == SelectSeq([i \in 1..NRows(t) |-> <<i, surv[i]>>],
                                LAMBDA p : p[1] \in members(k))
        cellsOf(k) == [i \in 1..Len(inGroup(k)) |-> inGroup(k)[i][2]]
    IN  [k \in 1..Len(keys) |->
            [key |-> keys[k],
             Survivors |-> SumSeq(Values(cellsOf(k))),
             Total |-> Len(Values(cellsOf(k))),
             Rate |-> Percent(SumSeq(Values(cellsOf(k))),
                              Len(Values(cellsOf(k))))]]

PclassSummary ==
    /\ pc = "pclass"
    /\ pclass_survival' = Summary(data, Pclass)
    /\ pc' = "agegroup"
    /\ UNCHANGED <<exists, enc, delim, df, loaded, calls, last, accepted, err, raised,
                   data, age_survival>>

\* Lines 139-140.
bins == <<0, 12, 18, 35, 60, 100>>
labels == <<"Child (0-11)", "Teen (12-17)", "Young Adult (18-34)",
            "Adult (35-59)", "Senior (60+)">>

\* pd.cut(x, bins=bins, labels=labels, right=False, include_lowest=True) for
\* one cell: the index in labels of its category, or NaN outside the bins.
cut(cell) ==
    IF cell.kind = "num"
           /\ \E i \in 1..Len(labels) :
                  Years(bins[i]) <= cell.val /\ cell.val < Years(bins[i + 1])
    THEN Cat(CHOOSE i \in 1..Len(labels) :
                 Years(bins[i]) <= cell.val /\ cell.val < Years(bins[i + 1]))
    ELSE NaN

\* Line 141: data['AgeGroup'] = pd.cut(data['Age'], ...)
AgeGrouping ==
    /\ pc = "agegroup"
    /\ data' = [data EXCEPT
                   !.columns = Append(@, AgeGroupName),
                   !.rows = [r \in 1..NRows(data) |->
                                Append(data.rows[r],
                                       cut(Column(data, Age)[r]))]]
    /\ pc' = "age"
    /\ UNCHANGED <<exists, enc, delim, df, loaded, calls, last, accepted, err, raised,
                   pclass_survival, age_survival>>

AgeSummary ==
    /\ pc = "age"
    /\ age_survival' = Summary(data, AgeGroupName)
    /\ pc' = "done"
    /\ UNCHANGED <<exists, enc, delim, df, loaded, calls, last, accepted, err, raised,
                   data, pclass_survival>>

Next ==
    \/ TryHypothesis
    \/ CheckLoaded
    \/ NormalizeAndMatch
    \/ Coerce
    \/ Main
    \/ PclassSummary
    \/ AgeGrouping
    \/ AgeSummary

Spec == Init /\ [][Next]_vars

-----------------------------------------------------------------------------
(* What the claims are stated with.                                        *)

\* The nine (encoding, delimiter) pairs, encodings outermost.
HypothesisOrder ==
    [k \in 1..(Len(ENCODINGS) * Len(DELIMITERS)) |->
        <<ENCODINGS[((k - 1) \div Len(DELIMITERS)) + 1],
          DELIMITERS[((k - 1) % Len(DELIMITERS)) + 1]>>]

\* The acceptance condition: decoded without error, at least 10 columns, at
\* least one data row.
Acceptable(outcome) ==
    /\ outcome.kind = "DataFrame"
    /\ Len(outcome.columns) >= MinColumns
    /\ Len(outcome.rows) >= 1

AfterSearch == pc \notin {"search", "loaded"}
AfterLoad == pc \in {"main", "pclass", "agegroup", "age", "done"}
Returned == data # None

\* The position in data of a column.
Col(name) == IndexOf(name, data.columns)

RequiredLower == {required_cols[k][1] : k \in 1..Len(required_cols)}

\* The required names a list of normalized names lacks, in order.
Lacking(columns) ==
    SelectSeq(<<pclass, survived, age>>,
              LAMBDA n : \A i \in 1..Len(columns) : columns[i] # n)

-----------------------------------------------------------------------------
(* C1 *)

\* C1: when no hypothesis satisfied the acceptance condition, the load fails
\* with DecodeExhausted and no table goes on to column normalization, schema
\* matching or aggregation.
C1_NoDatasetWithoutAcceptance ==
    (exists /\ accepted = <<>>) =>
        /\ pc \notin {"normalize", "coerce", "crashed", "pclass", "agegroup", "age"}
        /\ loaded = None
        /\ data = None
        /\ AfterLoad => err.kind = "DecodeExhausted"

-----------------------------------------------------------------------------
(* C2 *)

\* C2: the hypotheses are tried in the fixed nested order; the first one that
\* decodes without error into at least 10 columns and at least one row is
\* accepted, none is tried after it, and the table that is normalized and
\* returned is the one parsed under it.
C2_FirstAcceptableHypothesisWins ==
    /\ Len(calls) <= Len(HypothesisOrder)
    /\ calls = SubSeq(HypothesisOrder, 1, Len(calls))
    /\ Len(accepted) <= 1
    /\ last # None => last.hyp = calls[Len(calls)]
    /\ (last # None /\ Acceptable(last.outcome)) => accepted = <<last.hyp>>
    /\ pc = "search" => accepted = <<>>
    /\ accepted # <<>> =>
        /\ Acceptable(last.outcome)
        /\ accepted[1] = calls[Len(calls)]
        /\ pc = "loaded" => df = last.outcome
        /\ AfterSearch => loaded = last.outcome
        /\ Returned =>
            /\ Len(data.rows) = Len(last.outcome.rows)
            /\ \A i \in 1..Len(last.outcome.columns) :
                   StrLower(data.columns[i])
                       = NormalizeName(last.outcome.columns[i])

\* C2 happens: the fifth hypothesis of the order was accepted after four that
\* were not, and its two-row table was returned.
C2_Witness ==
    /\ pc = "done"
    /\ accepted = << <<"latin-1", ";">> >>
    /\ Returned
    /\ Len(calls) = 5
    /\ Len(data.rows) = 2

-----------------------------------------------------------------------------
(* C3 *)

\* C3: every record of a returned dataset has Pclass in {1, 2, 3}, Survived
\* in {0, 1} and a present Age >= 0.
C3_ReturnedRecordsInRange ==
    Returned =>
        \A r \in 1..Len(data.rows) :
            /\ data.rows[r][Col(Pclass)] \in {Num(1), Num(2), Num(3)}
            /\ data.rows[r][Col(Survived)] \in {Num(0), Num(1)}
            /\ data.rows[r][Col(Age)].kind = "num"
            /\ data.rows[r][Col(Age)].val >= 0

-----------------------------------------------------------------------------
(* C4 *)

\* The bucket of an age (in half-years) under [0,12), [12,18), [18,35),
\* [35,60), [60,infinity).
Bucket(v) ==
    IF v < Years(12) THEN 1
    ELSE IF v < Years(18) THEN 2
    ELSE IF v < Years(35) THEN 3
    ELSE IF v < Years(60) THEN 4
    ELSE 5

\* C4: every age x >= 0 gets the one label whose half-open interval holds x,
\* ages of 100 and more get Senior, and every such record is counted in
\* exactly one row of the age-group summary.
C4_EveryAgeHasItsBucket ==
    (Returned /\ pc = "done") =>
        /\ \A r \in 1..Len(data.rows) :
               LET a == data.rows[r][Col(Age)]
               IN  (a.kind = "num" /\ a.val >= 0) =>
                       data.rows[r][Col(AgeGroupName)] = Cat(Bucket(a.val))
        /\ LET counted == { r \in 1..Len(data.rows) :
                              /\ data.rows[r][Col(Age)].kind = "num"
                              /\ data.rows[r][Col(Age)].val >= 0 }
               total == SumSeq([k \in 1..Len(age_survival) |->
                                   age_survival[k].Total])
           IN  Cardinality(counted) <= total

-----------------------------------------------------------------------------
(* C5 *)

\* C5: a table that lacks any of pclass, survived, age among its normalized
\* names ends in MissingColumns with exactly the missing names and all the
\* names present, and no dataset; a dataset is returned only when all three
\* are there.
C5_MissingColumnsReported ==
    /\ pc = "coerce" => (Lacking(df.columns) = <<>> /\ err = None)
    /\ pc = "crashed" => (Lacking(df.columns) = <<>> /\ err = None)
    /\ err.kind = "MissingColumns" =>
        /\ err.missing = Lacking(df.columns)
        /\ err.missing # <<>>
        /\ err.present = df.columns
        /\ \A i \in 1..Len(loaded.columns) :
               err.present[i] = NormalizeName(loaded.columns[i])
        /\ Len(err.present) = Len(loaded.columns)
        /\ ~Returned
        /\ AfterLoad
    /\ Returned =>
        /\ err = None
        /\ \A n \in RequiredLower :
               \E i \in 1..Len(loaded.columns) :
                   NormalizeName(loaded.columns[i]) = n
    /\ (AfterLoad /\ loaded # None) => (Returned \/ err.kind = "MissingColumns")

\* C5 happens: two required names were missing and both were reported.
C5_Witness ==
    /\ pc = "done"
    /\ err.kind = "MissingColumns"
    /\ err.missing = <<pclass, age>>
    /\ InSeq(survived, err.present)

-----------------------------------------------------------------------------
(* C6 *)

\* C6: every call of load_data ends in a dataset, NotFound, DecodeExhausted or
\* MissingColumns, and no exception escapes.
C6_NoExceptionEscapes ==
    /\ raised = "none"
    /\ pc # "crashed"
    /\ AfterLoad =>
           \/ (Returned /\ err = None)
           \/ (~Returned /\ err.kind \in {"NotFound", "DecodeExhausted",
                                          "MissingColumns"})

-----------------------------------------------------------------------------
(* C7 *)

\* The k-th smallest of the numbers of s.
Kth(s, k) ==
    CHOOSE v \in {s[i] : i \in 1..Len(s)} :
        /\ Cardinality({i \in 1..Len(s) : s[i] < v}) < k
        /\ Cardinality({i \in 1..Len(s) : s[i] <= v}) >= k

\* The median of the present cells; NaN when none is present.
MedianOfPresent(cells) ==
    LET v == Values(cells)
        n == Len(v)
    IN  IF n = 0 THEN NaN
        ELSE IF n % 2 = 1 THEN Num(Kth(v, (n + 1) \div 2))
             ELSE Num((Kth(v, n \div 2) + Kth(v, (n \div 2) + 1)) \div 2)

\* The age cells of the table the search left.
LoadedAges == [r \in 1..Len(loaded.rows) |-> loaded.rows[r][Col(Age)]]

\* C7: in a returned dataset every row whose age was absent holds the median
\* of the ages that were present, and every other row keeps its age.
C7_AbsentAgesGetTheMedian ==
    Returned =>
        \A r \in 1..Len(data.rows) :
            data.rows[r][Col(Age)] =
                IF LoadedAges[r].kind = "nan"
                THEN MedianOfPresent(LoadedAges)
                ELSE LoadedAges[r]

\* C7 happens: ages [20, absent, 40, absent] came back as [20, 30, 40, 30].
C7_Witness ==
    /\ Returned
    /\ LoadedAges = <<Num(Years(20)), NaN, Num(Years(40)), NaN>>
    /\ [r \in 1..Len(data.rows) |-> data.rows[r][Col(Age)]]
           = <<Num(Years(20)), Num(Years(30)), Num(Years(40)), Num(Years(30))>>

-----------------------------------------------------------------------------
(* C8 *)

\* The summary the claim describes of the rows of data, grouped by a column.
ClaimedSummary(by) ==
    LET keys == GroupKeys([r \in 1..Len(data.rows) |-> data.rows[r][Col(by)]])
        part(k) == { r \in 1..Len(data.rows) :
                       data.rows[r][Col(by)] \in {Num(keys[k]), Cat(keys[k])} }
        survivors(k) == Cardinality({ r \in part(k) :
                                        data.rows[r][Col(Survived)] = Num(1) })
    IN  [k \in 1..Len(keys) |->
            [key |-> keys[k],
             Survivors |-> survivors(k),
             Total |-> Cardinality(part(k)),
             Rate |-> [num |-> 100 * survivors(k),
                       den |-> Cardinality(part(k))]]]

\* C8: each summary has one row per non-empty partition, in ascending key
\* order, with the number of records whose survived is 1, the number of
\* records, and 100 * survivors / total; no row has a total of 0.
C8_SummariesCountSurvivors ==
    (Returned /\ pc = "done") =>
        /\ pclass_survival = ClaimedSummary(Pclass)
        /\ age_survival = ClaimedSummary(AgeGroupName)
        /\ \A k \in 1..Len(pclass_survival) : pclass_survival[k].Total > 0
        /\ \A k \in 1..Len(age_survival) : age_survival[k].Total > 0

-----------------------------------------------------------------------------
(* C9 *)

\* C9: when the file does not exist, load_data fails with NotFound at the
\* first hypothesis: nothing more is tried, DecodeExhausted is not reported,
\* and no dataset is returned.
C9_MissingFileFailsAtOnce ==
    ~exists =>
        /\ Len(calls) <= 1
        /\ ~Returned
        /\ loaded = None
        /\ pc \in {"search", "main", "done"}
        /\ pc = "search" => (calls = <<>> /\ err = None)
        /\ pc # "search" =>
            /\ calls = <<HypothesisOrder[1]>>
            /\ err = [kind |-> "NotFound"]

\* C9 happens: the script ended on a missing file.
C9_Witness ==
    /\ ~exists
    /\ pc = "done"
    /\ err.kind = "NotFound"
    /\ Len(calls) = 1

-----------------------------------------------------------------------------
(* C10 *)

Blank == {<<>>, <<" ">>, <<"\t">>}

\* The names that differ from name only by capitalization, surrounding
\* whitespace or a leading BOM artifact.
VariantsOf(name) ==
    { pre \o bom \o mid \o cased \o post :
        pre \in Blank, bom \in {<<>>, BOM_ARTIFACT}, mid \in Blank,
        cased \in {name, Capitalized(name), StrUpper(name)}, post \in Blank }

RequiredVariants == [n \in RequiredLower |-> VariantsOf(n)]

\* C10: a header name that differs from a required name only by
\* capitalization, surrounding whitespace or a leading BOM artifact is matched
\* as that column: the name is never reported missing, and a table with all
\* three goes on to coercion.
C10_SpellingsAreMatched ==
    (loaded # None /\ pc # "normalize") =>
        LET found == { n \in RequiredLower :
                         \E i \in 1..Len(loaded.columns) :
                             loaded.columns[i] \in RequiredVariants[n] }
        IN  /\ err.kind = "MissingColumns" =>
                   \A n \in found : ~InSeq(n, err.missing)
            /\ found = RequiredLower => err = None

\* C10 happens: a header spelling pclass with a BOM artifact, padding and
\* capitals was matched, and the dataset came back.
C10_Witness ==
    /\ pc = "done"
    /\ Returned
    /\ InSeq(Padded(WithBom(StrUpper(pclass))), loaded.columns)
    /\ InSeq(Padded(Survived), loaded.columns)
    /\ InSeq(WithBom(StrUpper(age)), loaded.columns)

=============================================================================
